---- MODULE Spec2Model ----
(***************************************************************************)
(* CHIP-8 interpreter (chip8/base.py) with its two frontends               *)
(* (chip8/console.py, chip8/py_game.py), modelled as a state machine.      *)
(*                                                                         *)
(* The state is the interpreter object's fields.  One step of run()'s      *)
(* loop is four actions: read_keyboard, process_op_code (one action per    *)
(* instruction handler, each including the fetch and the dispatch),        *)
(* draw, update_timers.  Python semantics are kept where they differ       *)
(* from 8-bit hardware: integers are unbounded, a negative list index      *)
(* counts from the end, an index outside [-len, len-1] raises IndexError,  *)
(* and &, |, ^ act on the infinite two's complement representation.        *)
(***************************************************************************)
EXTENDS Integers, Sequences, FiniteSets, TLC

VARIABLES
    frontend,         \* "console" (ConsoleCHIP8Interpreter) or "pygame" (PyGameCHIP8Interpreter)
    memory,           \* self.memory: list of MEMORY_SIZE ints
    gpio,             \* self.gpio: list of 16 ints
    I,                \* self.I
    program_counter,  \* self.program_counter
    op_code,          \* self.op_code (set by process_op_code)
    stack,            \* self.stack: deque, top at the right end
    delay_timer,      \* self.delay_timer
    sound_timer,      \* self.sound_timer
    display,          \* self.display: list of 64*32 cells
    drawing,          \* self.drawing
    working,          \* self.working
    pressed_key,      \* self.pressed_key
    phase,            \* position in run(): which call of the loop body is next
    error,            \* the exception that ended the run, "none" while there is none
    handler,          \* name of the handler the last process_op_code ended in
    pre,              \* history: registers, I, stack, display, fetch address before the last process_op_code
    call_sites,       \* history: fetch addresses of the CALLs not yet returned from, oldest first
    transferred,      \* history: x, I and the registers as the last LD [I],Vx found them, while
                      \*          no later instruction has assigned to memory or I
    cycles,           \* history: number of completed loop iterations
    calls,            \* history: the methods run() has called in the current iteration, in order
    sound_played,     \* history: play_sound() was called by the last update_timers
    presented,        \* history: the last draw() blitted the display to the backend
    scene,            \* menu.py: the current scene of the scene manager, "none" under chip8.py
    roms,             \* MenuScene.roms: the sorted ROM file names
    current_page,     \* MenuScene.current_page
    selected_rom_index, \* MenuScene.selected_rom_index
    selected_rom,     \* history: what respond(SELECTED_ROM) last returned, 0 before any call
    menu_error        \* the exception that ended the menu, "none" while there is none

vars == <<frontend, memory, gpio, I, program_counter, op_code, stack, delay_timer,
          sound_timer, display, drawing, working, pressed_key, phase, error, handler,
          pre, call_sites, transferred, cycles, calls, sound_played, presented,
          scene, roms, current_page, selected_rom_index, selected_rom, menu_error>>

(***************************************************************************)
(* Class constants                                                         *)
(***************************************************************************)
MEMORY_START == 512
MEMORY_SIZE == 4096
ROWS == 64
COLUMNS == 32
DISPLAY_SIZE == 2048
FONT_SIZE_IN_BYTES == 5

FONTS ==
    << 240, 144, 144, 144, 240,
        32,  96,  32,  32, 112,
       240,  16, 240, 128, 240,
       240,  16, 240,  16, 240,
       144, 144, 240,  16,  16,
       240, 128, 240,  16, 240,
       240, 128, 240, 144, 240,
       240,  16,  32,  64,  64,
       240, 144, 240, 144, 240,
       240, 144, 240,  16, 240,
       240, 144, 240, 144, 144,
       224, 144, 224, 144, 224,
       240, 128, 128, 128, 240,
       224, 144, 144, 144, 224,
       240, 128, 240, 128, 240,
       240, 128, 240, 128, 128 >>

(***************************************************************************)
(* Bounds of the model                                                     *)
(***************************************************************************)
\* run() is followed for at most this many loop iterations
MaxCycles == 18
\* values random.randint(0, 0xFF) is drawn from in _Cxkk
RandomBytes == {0, 1, 3, 5, 128, 129, 254, 255}
\* CHIP-8 keys the polled keyboard may report as down
KeyPool == {5, 10}

(***************************************************************************)
(* Python integer and list semantics                                       *)
(***************************************************************************)
\* a & b on Python ints (infinite two's complement)
BitAnd(a, b) ==
    LET f[m \in Int, n \in Int] ==
           IF m = 0 \/ n = 0 THEN 0
           ELSE IF m = -1 THEN n
           ELSE IF n = -1 THEN m
           ELSE ((m % 2) * (n % 2)) + 2 * f[m \div 2, n \div 2]
    IN f[a, b]

\* a | b on Python ints
BitOr(a, b) ==
    LET f[m \in Int, n \in Int] ==
           IF m = 0 THEN n
           ELSE IF n = 0 THEN m
           ELSE IF m = -1 \/ n = -1 THEN -1
           ELSE (IF (m % 2) + (n % 2) > 0 THEN 1 ELSE 0) + 2 * f[m \div 2, n \div 2]
    IN f[a, b]

\* a ^ b on Python ints
BitXor(a, b) ==
    LET f[m \in Int, n \in Int] ==
           IF m = 0 THEN n
           ELSE IF n = 0 THEN m
           ELSE IF m = -1 THEN -n - 1
           ELSE IF n = -1 THEN -m - 1
           ELSE (((m % 2) + (n % 2)) % 2) + 2 * f[m \div 2, n \div 2]
    IN f[a, b]

\* list[i] raises IndexError unless -len <= i < len
ValidIndex(len, i) == (-len <= i) /\ (i < len)
\* the position list[i] denotes: a negative index counts from the end
ListIndex(len, i) == IF i < 0 THEN i + len ELSE i

MemOk(a) == ValidIndex(MEMORY_SIZE, a)
MemAt(m, a) == m[ListIndex(MEMORY_SIZE, a)]
MemPut(m, a, v) == [m EXCEPT ![ListIndex(MEMORY_SIZE, a)] = v]

(***************************************************************************)
(* Instruction word: fetch, operand fields, dispatch                       *)
(***************************************************************************)
\* process_op_code reads memory[pc] and memory[pc + 1]
FetchOk == MemOk(program_counter) /\ MemOk(program_counter + 1)
\* (memory[pc] << 8) | memory[pc + 1]
Fetched == BitOr(MemAt(memory, program_counter) * 256, MemAt(memory, program_counter + 1))

\* property vx: (op_code & 0x0F00) >> 8
vx(op) == BitAnd(op, \h0F00) \div 256
\* property vy: (op_code & 0x00F0) >> 4
vy(op) == BitAnd(op, \h00F0) \div 16
\* op_code & 0x00FF
kk(op) == BitAnd(op, \h00FF)
\* op_code & 0x0FFF
nnn(op) == BitAnd(op, \h0FFF)
\* op_code & 0x000F
nibble(op) == BitAnd(op, \h000F)

\* the defaultdict built in __init__: the handler a key maps to
OPS_MAPPING(code) ==
    CASE code = \h0000 -> "_0000"
      [] code = \h00E0 -> "_00E0"
      [] code = \h00EE -> "_00EE"
      [] code = \h1000 -> "_1nnn"
      [] code = \h2000 -> "_2nnn"
      [] code = \h3000 -> "_3xkk"
      [] code = \h4000 -> "_4xkk"
      [] code = \h5000 -> "_5xy0"
      [] code = \h6000 -> "_6xkk"
      [] code = \h7000 -> "_7xkk"
      [] code = \h8000 -> "_8000"
      [] code = \h8001 -> "_8xy1"
      [] code = \h8002 -> "_8xy2"
      [] code = \h8003 -> "_8xy3"
      [] code = \h8004 -> "_8xy4"
      [] code = \h8005 -> "_8xy5"
      [] code = \h8006 -> "_8xy6"
      [] code = \h8007 -> "_8xy7"
      [] code = \h800E -> "_8xyE"
      [] code = \h9000 -> "_9xy0"
      [] code = \hA000 -> "_Annn"
      [] code = \hB000 -> "_Bnnn"
      [] code = \hC000 -> "_Cxkk"
      [] code = \hD000 -> "_Dxyn"
      [] code = \hE000 -> "_E000"
      [] code = \hE09E -> "_Ex9E"
      [] code = \hE0A1 -> "_ExA1"
      [] code = \hF000 -> "_F000"
      [] code = \hF007 -> "_Fx07"
      [] code = \hF00A -> "_Fx0A"
      [] code = \hF015 -> "_Fx15"
      [] code = \hF018 -> "_Fx18"
      [] code = \hF01E -> "_Fx1E"
      [] code = \hF029 -> "_Fx29"
      [] code = \hF033 -> "_Fx33"
      [] code = \hF055 -> "_Fx55"
      [] code = \hF065 -> "_Fx65"
      [] OTHER -> "unknown_op_code"

\* The handler in which the dispatch of op ends, entered with key code.  The
\* family handlers _0000, _8000, _E000, _F000 compute a second key and call
\* _run_instruction again; _E000 and _F000 do so unconditionally, so when the
\* second key is their own key the call repeats with the same arguments until
\* Python's recursion limit raises RecursionError.
_run_instruction(code, op) ==
    LET run[key \in Int] ==
           LET func == OPS_MAPPING(key) IN
           CASE func = "_0000" ->
                   LET c == BitAnd(op, \hF0FF) IN
                   IF c = \h0000 THEN "_0nnn" ELSE run[c]
             [] func = "_8000" ->
                   LET c == BitAnd(op, \hF00F) IN
                   IF c = \h8000 THEN "_8xy0" ELSE run[c]
             [] func \in {"_E000", "_F000"} ->
                   LET c == BitAnd(op, \hF0FF) IN
                   IF c = key THEN "RecursionError" ELSE run[c]
             [] OTHER -> func
    IN run[code]

\* _process_op_code: dispatch on the family key op_code & 0xF000
_process_op_code(op) == _run_instruction(BitAnd(op, \hF000), op)

(***************************************************************************)
(* Programs.  A ROM is a sequence of 16-bit words, loaded big-endian at    *)
(* MEMORY_START by load_rom.                                               *)
(***************************************************************************)
\* 6005 LD V0,5; 6103 LD V1,3; 8015 SUB V0,V1
RomScenario == << \h6005, \h6103, \h8015 >>
\* RND Vx; RND Vy; 8xyn; RET on the empty stack ends the run
RomAlu(x, y, n) ==
    << \hC0FF + 256 * x, \hC0FF + 256 * y, \h8000 + 256 * x + 16 * y + n, \h00EE >>
\* RND V0; ADD V0,byte
RomAddByte(byte) == << \hC0FF, \h7000 + byte, \h00EE >>
\* nested CALL/RET: 200 CALL 206; 206 CALL 20A; 20A RET; 208 RET; 202 CALL 20A; 20A RET; 204 JP 204
RomCallRet == << \h2206, \h220A, \h1204, \h220A, \h00EE, \h00EE >>
\* RET with nothing on the stack
RomRetEmpty == << \h00EE >>
\* CALL 200 at 200: unbounded recursion
RomRecurse == << \h2200 >>
\* draw a 2-row sprite at (60,0) twice, a 0-row sprite, clear; sprite bytes FF 81 at 0x210
RomDraw ==
    << \h603C, \h6100, \hA210, \hD012, \hD012, \hD010, \h00E0, \h120E, \hFF81 >>
\* draw a 2-row sprite at (60,0) three times; sprite bytes FF 81 at 0x20E
RomDrawThrice ==
    << \h603C, \h6100, \hA20E, \hD012, \hD012, \hD012, \h120C, \hFF81 >>
\* draw a 3-row sprite at (60,0), then at a random position twice; bytes FF 81 A5 at 0x212
RomDrawRnd ==
    << \h603C, \h6100, \hA212, \hD013, \hC0FF, \hC1FF, \hD013, \hD013, \h00EE,
       \hFF81, \hA500 >>
\* I = 0xFFF; a 2-row sprite runs off the end of memory
RomDrawFault == << \hAFFF, \hD012 >>
\* LD V0,5; SKP V0; SKNP V0; LD V1,K; JP self
RomKeys == << \h6005, \hE09E, \hE0A1, \hF10A, \h1208 >>
\* LD V1,K; JP self
RomWaitKey == << \hF10A, \h1202 >>
\* LD V0,3; LD DT,V0; LD ST,V0; LD V2,DT; JP self
RomTimers == << \h6003, \hF015, \hF018, \hF207, \h1208 >>
\* RND V0; LD I,300; LD B,V0; LD V2,[I]; LD F,V0; ADD I,V1; LD [I],V2; JP V0,210
RomMem ==
    << \hC0FF, \hA300, \hF033, \hF265, \hF029, \hF11E, \hF255, \hB210, \h1210, \h1212 >>
\* RND V0; LD V1,5; SE V0,5; SNE V0,5; SE V0,V1; SNE V0,V1; 5011; JP self
RomSkips == << \hC0FF, \h6105, \h3005, \h4005, \h5010, \h9010, \h5011, \h8010, \h1210 >>
\* words no handler is mapped for, then SYS 20A
RomUnknown == << \h8018, \h0123, \hE0FF, \hF0FF, \h020A, \h120A >>
\* the family key is its own sub-key
RomFamilyE == << \hE000 >>
RomFamilyF == << \hF100 >>
\* JP FFF: the next fetch reads memory[0x1000]
RomFetchFault == << \h1FFF >>

\* V0..V2 = 11,22,33; LD I,300; LD [I],V2; V0..V2 = 0; LD V2,[I]; JP self
RomRoundTrip ==
    << \h6011, \h6122, \h6233, \hA300, \hF255, \h6000, \h6100, \h6200, \hF265, \h1212 >>
\* LD V0,FF; LD I,000; LD B,V0 (on the font); LD I,FFE; LD B,V0 (off the end)
RomStoreBcd == << \h60FF, \hA000, \hF033, \hAFFE, \hF033 >>
\* LD V1,1; SUB V0,V1; LD DT,V0; LD ST,V0; LD F,V0; LD B,V0; JP self
RomNegative == << \h6101, \h8015, \hF015, \hF018, \hF029, \hF033, \h120C >>
\* LD V1,1; LD I,FFF; ADD I,V1; JP self
RomAddI == << \h6101, \hAFFF, \hF11E, \h1206 >>
\* LD ST,V0 with V0 = 0; JP 200
RomSoundOff == << \hF018, \h1200 >>

AluPairs == { <<0, 1>>, <<3, 15>>, <<4, 4>>, <<15, 1>> }
AluOps == {1, 2, 3, 4, 5, 6, 7, 14}

ConsoleRoms ==
    { RomAlu(p[1], p[2], n) : p \in AluPairs, n \in AluOps }
    \cup { RomAddByte(b) : b \in {1, 255} }
    \cup { RomScenario, RomCallRet, RomRetEmpty, RomRecurse, RomDraw, RomDrawRnd,
           RomDrawFault, RomDrawThrice, RomKeys, RomWaitKey, RomTimers, RomMem, RomSkips,
           RomUnknown, RomFamilyE, RomFamilyF, RomFetchFault, RomRoundTrip,
           RomStoreBcd, RomNegative, RomAddI, RomSoundOff }
PygameRoms == { RomScenario, RomDraw, RomKeys, RomWaitKey, RomTimers, RomRetEmpty, RomUnknown }
\* the ROM files chip8.py is started on, by emulator type
RomsOf(type) == IF type = "console" THEN ConsoleRoms ELSE PygameRoms

\* the byte load_rom stores at address a, if any
RomByte(rom, a) ==
    LET k == a - MEMORY_START
        w == rom[(k \div 2) + 1]
    IN IF k % 2 = 0 THEN w \div 256 ELSE w % 256

\* __init__ with the font loop writing self.memory[i + 1]
ConstructedMemory_shifted ==
    [a \in 0..(MEMORY_SIZE - 1) |-> IF a >= 1 /\ a <= Len(FONTS) THEN FONTS[a] ELSE 0]

\* self.memory after __init__: [0] * MEMORY_SIZE, then the fonts from 0 on
ConstructedMemory ==
    [a \in 0..(MEMORY_SIZE - 1) |-> IF a < Len(FONTS) THEN FONTS[a + 1] ELSE 0]

\* self.memory after load_rom: the bytes of the file from MEMORY_START on
LoadedMemory(rom) ==
    [a \in 0..(MEMORY_SIZE - 1) |->
        IF a >= MEMORY_START /\ a < MEMORY_START + 2 * Len(rom) THEN RomByte(rom, a)
        ELSE memory[a]]

\* no LD [I],Vx is pending
NoTransfer == [x |-> -1, I |-> 0, gpio |-> [r \in 0..15 |-> 0]]

\* the handlers, other than _Fx55, that assign to self.memory or self.I
AssignsMemoryOrI == {"_Annn", "_Fx1E", "_Fx29", "_Fx33", "_Fx65"}

\* the pending LD [I],Vx after the handler called name
Transfer(name) ==
    IF name = "_Fx55" THEN [x |-> vx(Fetched), I |-> I, gpio |-> gpio]
    ELSE IF name \in AssignsMemoryOrI THEN NoTransfer
    ELSE transferred

Snapshot ==
    [gpio |-> gpio, I |-> I, stack |-> stack, program_counter |-> program_counter,
     delay_timer |-> delay_timer, sound_timer |-> sound_timer, call_sites |-> call_sites,
     display |-> display]

\* the fields CHIP8Interpreter.__init__ assigns, and the history kept with them
Constructed ==
    /\ memory = ConstructedMemory
    /\ gpio = [r \in 0..15 |-> 0]
    /\ I = 0
    /\ program_counter = MEMORY_START
    /\ op_code = 0
    /\ stack = << >>
    /\ delay_timer = 0
    /\ sound_timer = 0
    /\ display = [c \in 0..(DISPLAY_SIZE - 1) |-> 0]
    /\ drawing = FALSE
    /\ working = FALSE
    /\ pressed_key = {}
    /\ phase = "constructed"
    /\ error = "none"
    /\ handler = "none"
    /\ pre = [gpio |-> [r \in 0..15 |-> 0], I |-> 0, stack |-> << >>,
              program_counter |-> MEMORY_START, delay_timer |-> 0, sound_timer |-> 0,
              call_sites |-> << >>, display |-> [c \in 0..(DISPLAY_SIZE - 1) |-> 0]]
    /\ call_sites = << >>
    /\ transferred = NoTransfer
    /\ cycles = 0
    /\ calls = << >>
    /\ sound_played = FALSE
    /\ presented = FALSE

\* __init__ of the interpreter class chip8.py selects
Init ==
    /\ frontend \in {"console", "pygame"}
    /\ Constructed
    /\ scene = "none"
    /\ roms = << >>
    /\ current_page = 0
    /\ selected_rom_index = 0
    /\ selected_rom = 0
    /\ menu_error = "none"

(***************************************************************************)
(* run(): the loop                                                         *)
(***************************************************************************)
Machine == <<memory, gpio, I, program_counter, op_code, stack, delay_timer, sound_timer,
             display, drawing, handler, pre, call_sites, transferred, error>>
Loop == <<frontend, working, pressed_key, cycles, sound_played, presented>>
Menu == <<scene, roms, current_page, selected_rom_index, selected_rom, menu_error>>

\* load_rom, called by chip8.py between __init__ and run()
load_rom ==
    /\ phase = "constructed"
    /\ \E rom \in RomsOf(frontend) : memory' = LoadedMemory(rom)
    /\ phase' = "init"
    /\ UNCHANGED <<gpio, I, program_counter, op_code, stack, delay_timer, sound_timer,
                   display, drawing, handler, pre, call_sites, transferred, error, Loop, calls, Menu>>

\* run(): self.working = True, then the first test of the while loop
run ==
    /\ phase = "init"
    /\ working' = TRUE
    /\ phase' = "read_keyboard"
    /\ UNCHANGED <<Machine, frontend, pressed_key, cycles, sound_played, presented, calls, Menu>>

\* the poll made once, before the loop, instead of in every iteration
read_keyboard_console_once ==
    /\ phase = "read_keyboard"
    /\ frontend = "console"
    /\ cycles < MaxCycles
    /\ calls' = IF cycles = 0 THEN << "read_keyboard" >> ELSE << >>
    /\ phase' = "process_op_code"
    /\ UNCHANGED <<Machine, Loop, Menu>>

\* a console poll that reports keys
read_keyboard_console_keys ==
    /\ phase = "read_keyboard"
    /\ frontend = "console"
    /\ cycles < MaxCycles
    /\ \E down \in SUBSET KeyPool : pressed_key' = down
    /\ calls' = << "read_keyboard" >>
    /\ phase' = "process_op_code"
    /\ UNCHANGED <<Machine, frontend, working, cycles, sound_played, presented, Menu>>

\* ConsoleCHIP8Interpreter.read_keyboard: pass
read_keyboard_console ==
    /\ phase = "read_keyboard"
    /\ frontend = "console"
    /\ cycles < MaxCycles
    /\ calls' = << "read_keyboard" >>
    /\ phase' = "process_op_code"
    /\ UNCHANGED <<Machine, Loop, Menu>>

\* a poll after which K_ESCAPE ends the loop at once
read_keyboard_pygame_leaves ==
    /\ phase = "read_keyboard"
    /\ frontend = "pygame"
    /\ cycles < MaxCycles
    /\ \E down \in SUBSET KeyPool, escape \in BOOLEAN :
          /\ pressed_key' = down
          /\ working' = IF escape THEN FALSE ELSE working
          /\ phase' = IF escape THEN "stop" ELSE "process_op_code"
    /\ calls' = << "read_keyboard" >>
    /\ UNCHANGED <<Machine, frontend, cycles, sound_played, presented, Menu>>

\* PyGameCHIP8Interpreter.read_keyboard: the set is rebuilt from the keys that
\* are down; K_ESCAPE down clears working
read_keyboard_pygame ==
    /\ phase = "read_keyboard"
    /\ frontend = "pygame"
    /\ cycles < MaxCycles
    /\ \E down \in SUBSET KeyPool, escape \in BOOLEAN :
          /\ pressed_key' = down
          /\ working' = IF escape THEN FALSE ELSE working
    /\ calls' = << "read_keyboard" >>
    /\ phase' = "process_op_code"
    /\ UNCHANGED <<Machine, frontend, cycles, sound_played, presented, Menu>>

\* ConsoleCHIP8Interpreter.draw: nothing is printed while no cell is lit;
\* self.drawing is not touched
draw_console ==
    /\ phase = "draw"
    /\ frontend = "console"
    /\ presented' = (\E c \in DOMAIN display : display[c] # 0)
    /\ calls' = Append(calls, "draw")
    /\ phase' = "update_timers"
    /\ UNCHANGED <<Machine, frontend, working, pressed_key, cycles, sound_played, Menu>>

\* PyGameCHIP8Interpreter.draw: returns at once unless self.drawing; else
\* blits the display and clears the flag
draw_pygame ==
    /\ phase = "draw"
    /\ frontend = "pygame"
    /\ presented' = drawing
    /\ drawing' = FALSE
    /\ calls' = Append(calls, "draw")
    /\ phase' = "update_timers"
    /\ UNCHANGED <<memory, gpio, I, program_counter, op_code, stack, delay_timer,
                   sound_timer, display, handler, pre, call_sites, transferred, error,
                   frontend, working, pressed_key, cycles, sound_played, Menu>>

\* play_sound() whenever the sound timer is 0 after the tick
update_timers_sound_at_zero ==
    /\ phase = "update_timers"
    /\ delay_timer' = IF delay_timer > 0 THEN delay_timer - 1 ELSE delay_timer
    /\ sound_timer' = IF sound_timer > 0 THEN sound_timer - 1 ELSE sound_timer
    /\ sound_played' = (sound_timer' = 0)
    /\ cycles' = cycles + 1
    /\ calls' = Append(calls, "update_timers")
    /\ phase' = IF working THEN "read_keyboard" ELSE "stop"
    /\ UNCHANGED <<memory, gpio, I, program_counter, op_code, stack, display, drawing,
                   handler, pre, call_sites, transferred, error, frontend, working,
                   pressed_key, presented, Menu>>

\* the loop of run() without its test of self.working
update_timers_no_exit ==
    /\ phase = "update_timers"
    /\ delay_timer' = IF delay_timer > 0 THEN delay_timer - 1 ELSE delay_timer
    /\ sound_timer' = IF sound_timer > 0 THEN sound_timer - 1 ELSE sound_timer
    /\ sound_played' = (sound_timer > 0 /\ sound_timer - 1 = 0)
    /\ cycles' = cycles + 1
    /\ calls' = Append(calls, "update_timers")
    /\ phase' = "read_keyboard"
    /\ UNCHANGED <<memory, gpio, I, program_counter, op_code, stack, display, drawing,
                   handler, pre, call_sites, transferred, error, frontend, working,
                   pressed_key, presented, Menu>>

\* update_timers, then the while test of run()
update_timers ==
    /\ phase = "update_timers"
    /\ delay_timer' = IF delay_timer > 0 THEN delay_timer - 1 ELSE delay_timer
    /\ sound_timer' = IF sound_timer > 0 THEN sound_timer - 1 ELSE sound_timer
    /\ sound_played' = (sound_timer > 0 /\ sound_timer - 1 = 0)
    /\ cycles' = cycles + 1
    /\ calls' = Append(calls, "update_timers")
    /\ phase' = IF working THEN "read_keyboard" ELSE "stop"
    /\ UNCHANGED <<memory, gpio, I, program_counter, op_code, stack, display, drawing,
                   handler, pre, call_sites, transferred, error, frontend, working,
                   pressed_key, presented, Menu>>

\* stop(), called once the loop is left
stop ==
    /\ phase = "stop"
    /\ calls' = << "stop" >>
    /\ phase' = "halted"
    /\ UNCHANGED <<Machine, Loop, Menu>>

(***************************************************************************)
(* process_op_code: fetch, program_counter += 2, dispatch, handler          *)
(***************************************************************************)
\* the fetch succeeds and the dispatch ends in the handler called name
Decode(name) ==
    /\ phase = "process_op_code"
    /\ FetchOk
    /\ _process_op_code(Fetched) = name

\* the handler returns
Return(name) ==
    /\ op_code' = Fetched
    /\ handler' = name
    /\ pre' = Snapshot
    /\ transferred' = Transfer(name)
    /\ calls' = Append(calls, "process_op_code")
    /\ phase' = "draw"
    /\ UNCHANGED <<error, Loop, Menu>>

\* the handler raises exc, which run() does not catch
Raise(name, exc) ==
    /\ op_code' = Fetched
    /\ handler' = name
    /\ pre' = Snapshot
    /\ transferred' = Transfer(name)
    /\ calls' = Append(calls, "process_op_code")
    /\ phase' = "crashed"
    /\ error' = exc
    /\ UNCHANGED <<Loop, Menu>>

\* program_counter after the fetch
NextPc == program_counter + 2

\* memory[pc] or memory[pc + 1] raises IndexError before anything is assigned
fetch_IndexError ==
    /\ phase = "process_op_code"
    /\ ~FetchOk
    /\ phase' = "crashed"
    /\ error' = "IndexError"
    /\ handler' = "process_op_code"
    /\ pre' = Snapshot
    /\ calls' = Append(calls, "process_op_code")
    /\ UNCHANGED <<memory, gpio, I, program_counter, op_code, stack, delay_timer,
                   sound_timer, display, drawing, Loop, call_sites, transferred, Menu>>

\* _E000 / _F000 call _run_instruction with their own key again
dispatch_RecursionError ==
    /\ Decode("RecursionError")
    /\ program_counter' = NextPc
    /\ Raise("RecursionError", "RecursionError")
    /\ UNCHANGED <<memory, gpio, I, stack, delay_timer, sound_timer, display, drawing, call_sites>>

\* the fallback undoing the advance of the program counter
unknown_op_code_stays ==
    /\ Decode("unknown_op_code")
    /\ program_counter' = NextPc - 2
    /\ Return("unknown_op_code")
    /\ UNCHANGED <<memory, gpio, I, stack, delay_timer, sound_timer, display, drawing, call_sites>>

unknown_op_code ==
    /\ Decode("unknown_op_code")
    /\ program_counter' = NextPc
    /\ Return("unknown_op_code")
    /\ UNCHANGED <<memory, gpio, I, stack, delay_timer, sound_timer, display, drawing, call_sites>>

_0nnn ==
    /\ Decode("_0nnn")
    /\ program_counter' = nnn(Fetched)
    /\ Return("_0nnn")
    /\ UNCHANGED <<memory, gpio, I, stack, delay_timer, sound_timer, display, drawing, call_sites>>

_00E0 ==
    /\ Decode("_00E0")
    /\ program_counter' = NextPc
    /\ display' = [c \in 0..(COLUMNS * ROWS - 1) |-> 0]
    /\ drawing' = TRUE
    /\ Return("_00E0")
    /\ UNCHANGED <<memory, gpio, I, stack, delay_timer, sound_timer, call_sites>>

\* _00EE taking the oldest return address (popleft)
_00EE_popleft ==
    /\ Decode("_00EE")
    /\ IF stack = << >>
       THEN /\ program_counter' = NextPc
            /\ stack' = stack
            /\ call_sites' = call_sites
            /\ Raise("_00EE", "IndexError")
       ELSE /\ program_counter' = stack[1]
            /\ stack' = Tail(stack)
            /\ call_sites' = SubSeq(call_sites, 1, Len(call_sites) - 1)
            /\ Return("_00EE")
    /\ UNCHANGED <<memory, gpio, I, delay_timer, sound_timer, display, drawing>>

\* _00EE that returns normally when the stack is empty
_00EE_ignore_empty ==
    /\ Decode("_00EE")
    /\ IF stack = << >>
       THEN /\ program_counter' = NextPc
            /\ stack' = stack
            /\ call_sites' = call_sites
            /\ Return("_00EE")
       ELSE /\ program_counter' = stack[Len(stack)]
            /\ stack' = SubSeq(stack, 1, Len(stack) - 1)
            /\ call_sites' = SubSeq(call_sites, 1, Len(call_sites) - 1)
            /\ Return("_00EE")
    /\ UNCHANGED <<memory, gpio, I, delay_timer, sound_timer, display, drawing>>

\* deque.pop() takes the right end; on an empty deque it raises IndexError
_00EE ==
    /\ Decode("_00EE")
    /\ IF stack = << >>
       THEN /\ program_counter' = NextPc
            /\ stack' = stack
            /\ call_sites' = call_sites
            /\ Raise("_00EE", "IndexError")
       ELSE /\ program_counter' = stack[Len(stack)]
            /\ stack' = SubSeq(stack, 1, Len(stack) - 1)
            /\ call_sites' = SubSeq(call_sites, 1, Len(call_sites) - 1)
            /\ Return("_00EE")
    /\ UNCHANGED <<memory, gpio, I, delay_timer, sound_timer, display, drawing>>

_1nnn ==
    /\ Decode("_1nnn")
    /\ program_counter' = nnn(Fetched)
    /\ Return("_1nnn")
    /\ UNCHANGED <<memory, gpio, I, stack, delay_timer, sound_timer, display, drawing, call_sites>>

_2nnn ==
    /\ Decode("_2nnn")
    /\ stack' = Append(stack, NextPc)
    /\ call_sites' = Append(call_sites, program_counter)
    /\ program_counter' = nnn(Fetched)
    /\ Return("_2nnn")
    /\ UNCHANGED <<memory, gpio, I, delay_timer, sound_timer, display, drawing>>

_3xkk ==
    /\ Decode("_3xkk")
    /\ program_counter' = IF gpio[vx(Fetched)] = kk(Fetched) THEN NextPc + 2 ELSE NextPc
    /\ Return("_3xkk")
    /\ UNCHANGED <<memory, gpio, I, stack, delay_timer, sound_timer, display, drawing, call_sites>>

_4xkk ==
    /\ Decode("_4xkk")
    /\ program_counter' = IF gpio[vx(Fetched)] # kk(Fetched) THEN NextPc + 2 ELSE NextPc
    /\ Return("_4xkk")
    /\ UNCHANGED <<memory, gpio, I, stack, delay_timer, sound_timer, display, drawing, call_sites>>

_5xy0 ==
    /\ Decode("_5xy0")
    /\ program_counter' =
          IF gpio[vx(Fetched)] = gpio[vy(Fetched)] THEN NextPc + 2 ELSE NextPc
    /\ Return("_5xy0")
    /\ UNCHANGED <<memory, gpio, I, stack, delay_timer, sound_timer, display, drawing, call_sites>>

_6xkk ==
    /\ Decode("_6xkk")
    /\ program_counter' = NextPc
    /\ gpio' = [gpio EXCEPT ![vx(Fetched)] = kk(Fetched)]
    /\ Return("_6xkk")
    /\ UNCHANGED <<memory, I, stack, delay_timer, sound_timer, display, drawing, call_sites>>

_7xkk ==
    /\ Decode("_7xkk")
    /\ program_counter' = NextPc
    /\ gpio' = [gpio EXCEPT ![vx(Fetched)] = BitAnd(gpio[vx(Fetched)] + kk(Fetched), \hFF)]
    /\ Return("_7xkk")
    /\ UNCHANGED <<memory, I, stack, delay_timer, sound_timer, display, drawing, call_sites>>

_8xy0 ==
    /\ Decode("_8xy0")
    /\ program_counter' = NextPc
    /\ gpio' = [gpio EXCEPT ![vx(Fetched)] = gpio[vy(Fetched)]]
    /\ Return("_8xy0")
    /\ UNCHANGED <<memory, I, stack, delay_timer, sound_timer, display, drawing, call_sites>>

_8xy1 ==
    /\ Decode("_8xy1")
    /\ program_counter' = NextPc
    /\ gpio' = [gpio EXCEPT ![vx(Fetched)] = BitOr(gpio[vx(Fetched)], gpio[vy(Fetched)])]
    /\ Return("_8xy1")
    /\ UNCHANGED <<memory, I, stack, delay_timer, sound_timer, display, drawing, call_sites>>

_8xy2 ==
    /\ Decode("_8xy2")
    /\ program_counter' = NextPc
    /\ gpio' = [gpio EXCEPT ![vx(Fetched)] = BitAnd(gpio[vx(Fetched)], gpio[vy(Fetched)])]
    /\ Return("_8xy2")
    /\ UNCHANGED <<memory, I, stack, delay_timer, sound_timer, display, drawing, call_sites>>

_8xy3 ==
    /\ Decode("_8xy3")
    /\ program_counter' = NextPc
    /\ gpio' = [gpio EXCEPT ![vx(Fetched)] = BitXor(gpio[vx(Fetched)], gpio[vy(Fetched)])]
    /\ Return("_8xy3")
    /\ UNCHANGED <<memory, I, stack, delay_timer, sound_timer, display, drawing, call_sites>>

\* _8xy4 with the carry test written sum >= 0xFF
_8xy4_carry_ge ==
    /\ Decode("_8xy4")
    /\ program_counter' = NextPc
    /\ LET sum == gpio[vx(Fetched)] + gpio[vy(Fetched)]
           g1 == [gpio EXCEPT ![15] = IF sum >= \hFF THEN 1 ELSE 0]
       IN gpio' = [g1 EXCEPT ![vx(Fetched)] = BitAnd(sum, \hFF)]
    /\ Return("_8xy4")
    /\ UNCHANGED <<memory, I, stack, delay_timer, sound_timer, display, drawing, call_sites>>

\* sum is computed first; VF is written before Vx
_8xy4 ==
    /\ Decode("_8xy4")
    /\ program_counter' = NextPc
    /\ LET sum == gpio[vx(Fetched)] + gpio[vy(Fetched)]
           g1 == [gpio EXCEPT ![15] = IF sum > \hFF THEN 1 ELSE 0]
       IN gpio' = [g1 EXCEPT ![vx(Fetched)] = BitAnd(sum, \hFF)]
    /\ Return("_8xy4")
    /\ UNCHANGED <<memory, I, stack, delay_timer, sound_timer, display, drawing, call_sites>>

\* _8xy5 with the operands of the subtraction exchanged
_8xy5_swapped ==
    /\ Decode("_8xy5")
    /\ program_counter' = NextPc
    /\ LET sub == gpio[vy(Fetched)] - gpio[vx(Fetched)]
           g1 == [gpio EXCEPT ![15] = IF sub > 0 THEN 1 ELSE 0]
       IN gpio' = [g1 EXCEPT ![vx(Fetched)] = sub]
    /\ Return("_8xy5")
    /\ UNCHANGED <<memory, I, stack, delay_timer, sound_timer, display, drawing, call_sites>>

\* the difference is stored as it is: no & 0xFF
_8xy5 ==
    /\ Decode("_8xy5")
    /\ program_counter' = NextPc
    /\ LET sub == gpio[vx(Fetched)] - gpio[vy(Fetched)]
           g1 == [gpio EXCEPT ![15] = IF sub > 0 THEN 1 ELSE 0]
       IN gpio' = [g1 EXCEPT ![vx(Fetched)] = sub]
    /\ Return("_8xy5")
    /\ UNCHANGED <<memory, I, stack, delay_timer, sound_timer, display, drawing, call_sites>>

\* _8xy6 with the flag taken after the shift
_8xy6_flag_after ==
    /\ Decode("_8xy6")
    /\ program_counter' = NextPc
    /\ LET g1 == [gpio EXCEPT ![vx(Fetched)] = BitAnd(gpio[vx(Fetched)] \div 2, \hFF)]
       IN gpio' = [g1 EXCEPT ![15] = BitAnd(g1[vx(Fetched)], 1)]
    /\ Return("_8xy6")
    /\ UNCHANGED <<memory, I, stack, delay_timer, sound_timer, display, drawing, call_sites>>

\* VF is written first; Vx is then read again for the shift
_8xy6 ==
    /\ Decode("_8xy6")
    /\ program_counter' = NextPc
    /\ LET g1 == [gpio EXCEPT ![15] = BitAnd(gpio[vx(Fetched)], 1)]
       IN gpio' = [g1 EXCEPT ![vx(Fetched)] = BitAnd(g1[vx(Fetched)] \div 2, \hFF)]
    /\ Return("_8xy6")
    /\ UNCHANGED <<memory, I, stack, delay_timer, sound_timer, display, drawing, call_sites>>

_8xy7 ==
    /\ Decode("_8xy7")
    /\ program_counter' = NextPc
    /\ LET sub == gpio[vy(Fetched)] - gpio[vx(Fetched)]
           g1 == [gpio EXCEPT ![15] = IF sub > 0 THEN 1 ELSE 0]
       IN gpio' = [g1 EXCEPT ![vx(Fetched)] = sub]
    /\ Return("_8xy7")
    /\ UNCHANGED <<memory, I, stack, delay_timer, sound_timer, display, drawing, call_sites>>

_8xyE ==
    /\ Decode("_8xyE")
    /\ program_counter' = NextPc
    /\ LET g1 == [gpio EXCEPT ![15] = BitAnd(gpio[vx(Fetched)] \div 128, 1)]
       IN gpio' = [g1 EXCEPT ![vx(Fetched)] = BitAnd(g1[vx(Fetched)] * 2, \hFF)]
    /\ Return("_8xyE")
    /\ UNCHANGED <<memory, I, stack, delay_timer, sound_timer, display, drawing, call_sites>>

_9xy0 ==
    /\ Decode("_9xy0")
    /\ program_counter' =
          IF gpio[vx(Fetched)] # gpio[vy(Fetched)] THEN NextPc + 2 ELSE NextPc
    /\ Return("_9xy0")
    /\ UNCHANGED <<memory, gpio, I, stack, delay_timer, sound_timer, display, drawing, call_sites>>

_Annn ==
    /\ Decode("_Annn")
    /\ program_counter' = NextPc
    /\ I' = nnn(Fetched)
    /\ Return("_Annn")
    /\ UNCHANGED <<memory, gpio, stack, delay_timer, sound_timer, display, drawing, call_sites>>

_Bnnn ==
    /\ Decode("_Bnnn")
    /\ program_counter' = nnn(Fetched) + gpio[0]
    /\ Return("_Bnnn")
    /\ UNCHANGED <<memory, gpio, I, stack, delay_timer, sound_timer, display, drawing, call_sites>>

_Cxkk ==
    /\ Decode("_Cxkk")
    /\ program_counter' = NextPc
    /\ \E random_byte \in RandomBytes :
          gpio' = [gpio EXCEPT ![vx(Fetched)] = BitAnd(BitAnd(random_byte, kk(Fetched)), \hFF)]
    /\ Return("_Cxkk")
    /\ UNCHANGED <<memory, I, stack, delay_timer, sound_timer, display, drawing, call_sites>>

\* the index wrapped only as a whole, not per axis
DrawIndexFlat(x, y, col, row) ==
    ((x + row) + (y + col) * ROWS) % DISPLAY_SIZE

\* the display cell sprite bit row of sprite line col is XORed into
DrawIndex(x, y, col, row) ==
    (((x + row) % ROWS) + ((y + col) % COLUMNS) * ROWS) % DISPLAY_SIZE

\* one sprite row composited by or rather than exclusive or
DrawBits_set(d, vf, pixel, x, y, col, row) ==
    LET bits[dd \in [0..(DISPLAY_SIZE - 1) -> Int], f \in Int, r \in Int] ==
           IF r = 8 THEN [display |-> dd, VF |-> f]
           ELSE IF BitAnd(pixel, \h80 \div (2 ^ r)) = 0 THEN bits[dd, f, r + 1]
           ELSE LET idx == DrawIndex(x, y, col, r)
                IN bits[[dd EXCEPT ![idx] = 1],
                        IF dd[idx] = 1 THEN 1 ELSE f,
                        r + 1]
    IN bits[d, vf, row]

\* one sprite row composited by addition rather than exclusive or
DrawBits_add(d, vf, pixel, x, y, col, row) ==
    LET bits[dd \in [0..(DISPLAY_SIZE - 1) -> Int], f \in Int, r \in Int] ==
           IF r = 8 THEN [display |-> dd, VF |-> f]
           ELSE IF BitAnd(pixel, \h80 \div (2 ^ r)) = 0 THEN bits[dd, f, r + 1]
           ELSE LET idx == DrawIndex(x, y, col, r)
                IN bits[[dd EXCEPT ![idx] = dd[idx] + 1],
                        IF dd[idx] = 1 THEN 1 ELSE f,
                        r + 1]
    IN bits[d, vf, row]

\* the inner loop of _Dxyn from bit row on: unset sprite bits are skipped
DrawBits(d, vf, pixel, x, y, col, row) ==
    LET bits[dd \in [0..(DISPLAY_SIZE - 1) -> Int], f \in Int, r \in Int] ==
           IF r = 8 THEN [display |-> dd, VF |-> f]
           ELSE IF BitAnd(pixel, \h80 \div (2 ^ r)) = 0 THEN bits[dd, f, r + 1]
           ELSE LET idx == DrawIndex(x, y, col, r)
                IN bits[[dd EXCEPT ![idx] = BitXor(dd[idx], 1)],
                        IF dd[idx] = 1 THEN 1 ELSE f,
                        r + 1]
    IN bits[d, vf, row]

\* the outer loop of _Dxyn from sprite line col on; memory[I + col] may raise
\* IndexError, which leaves the lines drawn so far on the display
DrawRows(d, vf, x, y, height, col) ==
    LET rows[dd \in [0..(DISPLAY_SIZE - 1) -> Int], f \in Int, c \in Int] ==
           IF c = height THEN [display |-> dd, VF |-> f, ok |-> TRUE]
           ELSE IF ~MemOk(I + c) THEN [display |-> dd, VF |-> f, ok |-> FALSE]
           ELSE LET r == DrawBits(dd, f, MemAt(memory, I + c), x, y, c, 0)
                IN rows[r.display, r.VF, c + 1]
    IN rows[d, vf, col]

\* self.VF = 0 left out: the flag of the last instruction survives
_Dxyn_keep_flag ==
    /\ Decode("_Dxyn")
    /\ program_counter' = NextPc
    /\ \E res \in { DrawRows(display, gpio[15],
                             BitAnd(gpio[vx(Fetched)], \hFF), BitAnd(gpio[vy(Fetched)], \hFF),
                             nibble(Fetched), 0) } :
          /\ display' = res.display
          /\ gpio' = [gpio EXCEPT ![15] = res.VF]
          /\ IF res.ok
             THEN drawing' = TRUE /\ Return("_Dxyn")
             ELSE drawing' = drawing /\ Raise("_Dxyn", "IndexError")
    /\ UNCHANGED <<memory, I, stack, delay_timer, sound_timer, call_sites>>

\* x and y are read before VF is cleared
_Dxyn ==
    /\ Decode("_Dxyn")
    /\ program_counter' = NextPc
    /\ \E res \in { DrawRows(display, 0,
                             BitAnd(gpio[vx(Fetched)], \hFF), BitAnd(gpio[vy(Fetched)], \hFF),
                             nibble(Fetched), 0) } :
          /\ display' = res.display
          /\ gpio' = [gpio EXCEPT ![15] = res.VF]
          /\ IF res.ok
             THEN drawing' = TRUE /\ Return("_Dxyn")
             ELSE drawing' = drawing /\ Raise("_Dxyn", "IndexError")
    /\ UNCHANGED <<memory, I, stack, delay_timer, sound_timer, call_sites>>

\* the test of _ExA1 in the place of the test of _Ex9E
_Ex9E_released ==
    /\ Decode("_Ex9E")
    /\ program_counter' = IF gpio[vx(Fetched)] \notin pressed_key THEN NextPc + 2 ELSE NextPc
    /\ Return("_Ex9E")
    /\ UNCHANGED <<memory, gpio, I, stack, delay_timer, sound_timer, display, drawing, call_sites>>

_Ex9E ==
    /\ Decode("_Ex9E")
    /\ program_counter' = IF gpio[vx(Fetched)] \in pressed_key THEN NextPc + 2 ELSE NextPc
    /\ Return("_Ex9E")
    /\ UNCHANGED <<memory, gpio, I, stack, delay_timer, sound_timer, display, drawing, call_sites>>

_ExA1 ==
    /\ Decode("_ExA1")
    /\ program_counter' = IF gpio[vx(Fetched)] \notin pressed_key THEN NextPc + 2 ELSE NextPc
    /\ Return("_ExA1")
    /\ UNCHANGED <<memory, gpio, I, stack, delay_timer, sound_timer, display, drawing, call_sites>>

_Fx07 ==
    /\ Decode("_Fx07")
    /\ program_counter' = NextPc
    /\ gpio' = [gpio EXCEPT ![vx(Fetched)] = delay_timer]
    /\ Return("_Fx07")
    /\ UNCHANGED <<memory, I, stack, delay_timer, sound_timer, display, drawing, call_sites>>

\* _Fx0A without the step back of the program counter
_Fx0A_no_wait ==
    /\ Decode("_Fx0A")
    /\ program_counter' = NextPc
    /\ IF pressed_key = {}
       THEN gpio' = gpio
       ELSE \E key \in pressed_key : gpio' = [gpio EXCEPT ![vx(Fetched)] = key]
    /\ Return("_Fx0A")
    /\ UNCHANGED <<memory, I, stack, delay_timer, sound_timer, display, drawing, call_sites>>

\* _Fx0A storing the number of keys down rather than a key
_Fx0A_key_count ==
    /\ Decode("_Fx0A")
    /\ IF pressed_key = {}
       THEN /\ program_counter' = NextPc - 2
            /\ gpio' = gpio
       ELSE /\ program_counter' = NextPc
            /\ gpio' = [gpio EXCEPT ![vx(Fetched)] = Cardinality(pressed_key)]
    /\ Return("_Fx0A")
    /\ UNCHANGED <<memory, I, stack, delay_timer, sound_timer, display, drawing, call_sites>>

\* with no key down the program counter is put back on the instruction; else
\* Vx ends as the key the iteration over the set yields last, which is any
\* member: the order of a set is not specified
_Fx0A ==
    /\ Decode("_Fx0A")
    /\ IF pressed_key = {}
       THEN /\ program_counter' = NextPc - 2
            /\ gpio' = gpio
       ELSE /\ program_counter' = NextPc
            /\ \E key \in pressed_key : gpio' = [gpio EXCEPT ![vx(Fetched)] = key]
    /\ Return("_Fx0A")
    /\ UNCHANGED <<memory, I, stack, delay_timer, sound_timer, display, drawing, call_sites>>

_Fx15 ==
    /\ Decode("_Fx15")
    /\ program_counter' = NextPc
    /\ delay_timer' = gpio[vx(Fetched)]
    /\ Return("_Fx15")
    /\ UNCHANGED <<memory, gpio, I, stack, sound_timer, display, drawing, call_sites>>

_Fx18 ==
    /\ Decode("_Fx18")
    /\ program_counter' = NextPc
    /\ sound_timer' = gpio[vx(Fetched)]
    /\ Return("_Fx18")
    /\ UNCHANGED <<memory, gpio, I, stack, delay_timer, display, drawing, call_sites>>

\* the flag is computed from VF + Vx, not I + Vx, and written before Vx is
\* read for the addition
_Fx1E ==
    /\ Decode("_Fx1E")
    /\ program_counter' = NextPc
    /\ LET g1 == [gpio EXCEPT ![15] = IF gpio[15] + gpio[vx(Fetched)] > \hFFF THEN 1 ELSE 0]
       IN /\ gpio' = g1
          /\ I' = I + g1[vx(Fetched)]
    /\ Return("_Fx1E")
    /\ UNCHANGED <<memory, stack, delay_timer, sound_timer, display, drawing, call_sites>>

_Fx29 ==
    /\ Decode("_Fx29")
    /\ program_counter' = NextPc
    /\ I' = gpio[vx(Fetched)] * FONT_SIZE_IN_BYTES
    /\ Return("_Fx29")
    /\ UNCHANGED <<memory, gpio, stack, delay_timer, sound_timer, display, drawing, call_sites>>

\* memory[base + i] = vals[i + 1] for i = from, from + 1, ... in order; the
\* first index out of range raises IndexError and keeps the earlier stores
StoreSeq(m, base, vals, from) ==
    LET store[mm \in [0..(MEMORY_SIZE - 1) -> Int], k \in Int] ==
           IF k = Len(vals) THEN [memory |-> mm, ok |-> TRUE]
           ELSE IF ~MemOk(base + k) THEN [memory |-> mm, ok |-> FALSE]
           ELSE store[MemPut(mm, base + k, vals[k + 1]), k + 1]
    IN store[m, from]

\* the digits _Fx33 computes: int((vx % 1000) / 100), int((vx % 100) / 10), vx % 10
hundreds(v) == (v % 1000) \div 100
tens(v) == (v % 100) \div 10
ones(v) == v % 10

\* _Fx33 with the tens digit taken from v / 10 without the reduction mod 100
_Fx33_tens_unreduced ==
    /\ Decode("_Fx33")
    /\ program_counter' = NextPc
    /\ LET vx_ == gpio[vx(Fetched)]
       IN \E res \in { StoreSeq(memory, I, << hundreds(vx_), vx_ \div 10, ones(vx_) >>, 0) } :
             /\ memory' = res.memory
             /\ IF res.ok THEN Return("_Fx33") ELSE Raise("_Fx33", "IndexError")
    /\ UNCHANGED <<gpio, I, stack, delay_timer, sound_timer, display, drawing, call_sites>>

\* the three targets of the tuple assignment are stored left to right
_Fx33 ==
    /\ Decode("_Fx33")
    /\ program_counter' = NextPc
    /\ LET vx_ == gpio[vx(Fetched)]
       IN \E res \in { StoreSeq(memory, I, << hundreds(vx_), tens(vx_), ones(vx_) >>, 0) } :
             /\ memory' = res.memory
             /\ IF res.ok THEN Return("_Fx33") ELSE Raise("_Fx33", "IndexError")
    /\ UNCHANGED <<gpio, I, stack, delay_timer, sound_timer, display, drawing, call_sites>>

\* for i in range(self.vx): registers V0 .. V(x-1); then I += x + 1
_Fx55 ==
    /\ Decode("_Fx55")
    /\ program_counter' = NextPc
    /\ \E res \in { StoreSeq(memory, I, [i \in 1..vx(Fetched) |-> gpio[i - 1]], 0) } :
          /\ memory' = res.memory
          /\ IF res.ok
             THEN I' = I + vx(Fetched) + 1 /\ Return("_Fx55")
             ELSE I' = I /\ Raise("_Fx55", "IndexError")
    /\ UNCHANGED <<gpio, stack, delay_timer, sound_timer, display, drawing, call_sites>>

\* gpio[i] = memory[I + i] for i = from .. n - 1 in order, until an index is
\* out of range
LoadRegs(g, n, from) ==
    LET load[gg \in [0..15 -> Int], k \in Int] ==
           IF k = n THEN [gpio |-> gg, ok |-> TRUE]
           ELSE IF ~MemOk(I + k) THEN [gpio |-> gg, ok |-> FALSE]
           ELSE load[[gg EXCEPT ![k] = MemAt(memory, I + k)], k + 1]
    IN load[g, from]

\* for i in range(self.vx): registers V0 .. V(x-1); then I += x + 1
_Fx65 ==
    /\ Decode("_Fx65")
    /\ program_counter' = NextPc
    /\ \E res \in { LoadRegs(gpio, vx(Fetched), 0) } :
          /\ gpio' = res.gpio
          /\ IF res.ok
             THEN I' = I + vx(Fetched) + 1 /\ Return("_Fx65")
             ELSE I' = I /\ Raise("_Fx65", "IndexError")
    /\ UNCHANGED <<memory, stack, delay_timer, sound_timer, display, drawing, call_sites>>

\* process_op_code: exactly one of these is enabled in a state of the phase
process_op_code ==
    \/ fetch_IndexError
    \/ dispatch_RecursionError
    \/ unknown_op_code
    \/ _0nnn \/ _00E0 \/ _00EE \/ _1nnn \/ _2nnn \/ _3xkk \/ _4xkk \/ _5xy0
    \/ _6xkk \/ _7xkk \/ _8xy0 \/ _8xy1 \/ _8xy2 \/ _8xy3 \/ _8xy4 \/ _8xy5
    \/ _8xy6 \/ _8xy7 \/ _8xyE \/ _9xy0 \/ _Annn \/ _Bnnn \/ _Cxkk \/ _Dxyn
    \/ _Ex9E \/ _ExA1 \/ _Fx07 \/ _Fx0A \/ _Fx15 \/ _Fx18 \/ _Fx1E \/ _Fx29
    \/ _Fx33 \/ _Fx55 \/ _Fx65

Next ==
    \/ load_rom
    \/ run
    \/ read_keyboard_console
    \/ read_keyboard_pygame
    \/ process_op_code
    \/ draw_console
    \/ draw_pygame
    \/ update_timers
    \/ stop

Spec == Init /\ [][Next]_vars

\* run() is sequential code: a call that can be made is made
FairSpec == Spec /\ WF_vars(Next)

(***************************************************************************)
(* The ROM menu of menu.py: MenuScene and the switch to GameScene.  A ROM   *)
(* file name is modelled by its position in the sorted list.               *)
(***************************************************************************)
\* bound: the largest number of ROM files in the folder
MaxRoms == 20
\* self.page_size
page_size == 9

\* len(self.roms) // self.page_size
LastPage == Len(roms) \div page_size

\* property current_page_size divides by current_page * page_size
ZeroDivision == current_page = LastPage /\ current_page * page_size = 0

\* property current_page_size, where it does not raise
current_page_size ==
    IF current_page = LastPage
    THEN (Len(roms) % (current_page * page_size)) + 1
    ELSE page_size + 1

\* MenuScene.__init__, with the emulator of the game scene not yet run
MenuInit ==
    /\ frontend = "pygame"
    /\ Constructed
    /\ scene = "menu"
    /\ roms \in { [i \in 1..n |-> i] : n \in 0..MaxRoms }
    /\ current_page = 0
    /\ selected_rom_index = 0
    /\ selected_rom = 0
    /\ menu_error = "none"

Emulator == <<Machine, Loop, phase, calls>>

\* K_DOWN wrapping only once the index is past the page size
key_down_past_end ==
    /\ scene # "none"
    /\ menu_error = "none"
    /\ IF ZeroDivision
       THEN /\ selected_rom_index' = selected_rom_index + 1
            /\ menu_error' = "ZeroDivisionError"
       ELSE /\ selected_rom_index' =
                  IF selected_rom_index + 1 > current_page_size THEN 0
                  ELSE selected_rom_index + 1
            /\ menu_error' = menu_error
    /\ UNCHANGED <<scene, roms, current_page, selected_rom, Emulator>>

\* handleInputs on a KEYDOWN event with key K_DOWN
key_down ==
    /\ scene # "none"
    /\ menu_error = "none"
    /\ IF ZeroDivision
       THEN /\ selected_rom_index' = selected_rom_index + 1
            /\ menu_error' = "ZeroDivisionError"
       ELSE /\ selected_rom_index' =
                  IF selected_rom_index + 1 >= current_page_size THEN 0
                  ELSE selected_rom_index + 1
            /\ menu_error' = menu_error
    /\ UNCHANGED <<scene, roms, current_page, selected_rom, Emulator>>

\* handleInputs on a KEYDOWN event with key K_UP
key_up ==
    /\ scene # "none"
    /\ menu_error = "none"
    /\ IF selected_rom_index - 1 >= 0
       THEN /\ selected_rom_index' = selected_rom_index - 1
            /\ menu_error' = menu_error
       ELSE IF ZeroDivision
       THEN /\ selected_rom_index' = selected_rom_index - 1
            /\ menu_error' = "ZeroDivisionError"
       ELSE /\ selected_rom_index' = current_page_size - 1
            /\ menu_error' = menu_error
    /\ UNCHANGED <<scene, roms, current_page, selected_rom, Emulator>>

\* handleInputs on a KEYDOWN event with key K_SPACE or K_RETURN: on a ROM
\* button goToScene(GAME_SCENE_KEY), whose enter() requests SELECTED_ROM from
\* respond(); on the last button the next page
key_select ==
    /\ scene # "none"
    /\ menu_error = "none"
    /\ IF ZeroDivision
       THEN /\ menu_error' = "ZeroDivisionError"
            /\ UNCHANGED <<scene, current_page, selected_rom_index, selected_rom>>
       ELSE IF selected_rom_index # current_page_size - 1
       THEN LET idx == selected_rom_index + current_page * page_size IN
            /\ scene' = "game"
            /\ IF ValidIndex(Len(roms), idx)
               THEN /\ selected_rom' = roms[ListIndex(Len(roms), idx) + 1]
                    /\ menu_error' = menu_error
               ELSE /\ selected_rom' = selected_rom
                    /\ menu_error' = "IndexError"
            /\ UNCHANGED <<current_page, selected_rom_index>>
       ELSE /\ current_page' = IF current_page + 1 = LastPage + 1 THEN 0 ELSE current_page + 1
            /\ selected_rom_index' = 0
            /\ UNCHANGED <<scene, selected_rom, menu_error>>
    /\ UNCHANGED <<roms, Emulator>>

\* GameScene.update: once the emulator's run() has returned, goToScene(MENU_SCENE_KEY)
update ==
    /\ scene = "game"
    /\ menu_error = "none"
    /\ scene' = "menu"
    /\ UNCHANGED <<roms, current_page, selected_rom_index, selected_rom, menu_error, Emulator>>

MenuNext ==
    \/ key_down
    \/ key_up
    \/ key_select
    \/ update

MenuSpec == MenuInit /\ [][MenuNext]_vars

(***************************************************************************)
(* Properties.  The operand fields of an instruction word are taken here   *)
(* arithmetically, as the instruction set defines them, not through the    *)
(* interpreter's masks.  A state with phase = "draw" is the state right    *)
(* after the handler of op_code returned; pre holds the registers, I, the  *)
(* stack and the fetch address from before that instruction.               *)
(***************************************************************************)
Family(w) == (w \div 4096) % 16
FieldX(w) == (w \div 256) % 16
FieldY(w) == (w \div 16) % 16
FieldN(w) == w % 16
FieldKK(w) == w % 256
FieldNNN(w) == w % 4096
Byte == 0..255

\* the handler of op_code has just returned
Executed == phase = "draw"
\* 7xkk, 8xy1 .. 8xy7, 8xyE
IsArithmetic(w) ==
    \/ Family(w) = 7
    \/ Family(w) = 8 /\ FieldN(w) \in {1, 2, 3, 4, 5, 6, 7, 14}
\* 8xy4, 8xy5, 8xy6, 8xy7, 8xyE
IsFlagSetting(w) == Family(w) = 8 /\ FieldN(w) \in {4, 5, 6, 7, 14}

\* C1: after an arithmetic instruction (7xkk, 8xy1..8xy7, 8xyE) the destination
\* register Vx is in [0,255], and after a flag-setting one with x # 0xF
\* register 0xF is 0 or 1.
C1_ArithmeticResultsAreBytes ==
    (Executed /\ IsArithmetic(op_code)) =>
        /\ gpio[FieldX(op_code)] \in Byte
        /\ (IsFlagSetting(op_code) /\ FieldX(op_code) # 15) => gpio[15] \in {0, 1}

\* C2: SUB Vx,Vy (8xy5) with Vx, Vy in [0,255] and x # 0xF sets register 0xF
\* to 1 if Vx > Vy and to 0 otherwise, and Vx to (Vx - Vy) mod 256.
C2_SubWraps ==
    LET x == FieldX(op_code)
        y == FieldY(op_code)
    IN (/\ Executed
        /\ Family(op_code) = 8 /\ FieldN(op_code) = 5
        /\ x # 15
        /\ pre.gpio[x] \in Byte /\ pre.gpio[y] \in Byte) =>
           /\ gpio[15] = (IF pre.gpio[x] > pre.gpio[y] THEN 1 ELSE 0)
           /\ gpio[x] = (pre.gpio[x] - pre.gpio[y]) % 256

\* C3: SUBN Vx,Vy (8xy7) with Vx, Vy in [0,255] and x # 0xF sets register 0xF
\* to 1 if Vy > Vx and to 0 otherwise, and Vx to (Vy - Vx) mod 256.
C3_SubnWraps ==
    LET x == FieldX(op_code)
        y == FieldY(op_code)
    IN (/\ Executed
        /\ Family(op_code) = 8 /\ FieldN(op_code) = 7
        /\ x # 15
        /\ pre.gpio[x] \in Byte /\ pre.gpio[y] \in Byte) =>
           /\ gpio[15] = (IF pre.gpio[y] > pre.gpio[x] THEN 1 ELSE 0)
           /\ gpio[x] = (pre.gpio[y] - pre.gpio[x]) % 256

\* C4: ADD Vx,Vy (8xy4) with Vx, Vy in [0,255] and x # 0xF sets register 0xF
\* to 1 if Vx + Vy > 255 and to 0 otherwise, and Vx to (Vx + Vy) mod 256.
C4_AddCarry ==
    LET x == FieldX(op_code)
        y == FieldY(op_code)
    IN (/\ Executed
        /\ Family(op_code) = 8 /\ FieldN(op_code) = 4
        /\ x # 15
        /\ pre.gpio[x] \in Byte /\ pre.gpio[y] \in Byte) =>
           /\ gpio[15] = (IF pre.gpio[x] + pre.gpio[y] > 255 THEN 1 ELSE 0)
           /\ gpio[x] = (pre.gpio[x] + pre.gpio[y]) % 256

\* 0xFF + 0x01 has been added: Vx = 0x00, flag = 1
C4_Witness ==
    /\ Executed
    /\ op_code = \h8014
    /\ pre.gpio[0] = 255 /\ pre.gpio[1] = 1
    /\ gpio[0] = 0 /\ gpio[15] = 1

\* C5: with Vx in [0,255] and x # 0xF, SHR Vx (8xy6) sets register 0xF to bit 0
\* of the old Vx and Vx to old Vx >> 1; SHL Vx (8xyE) sets register 0xF to
\* bit 7 of the old Vx and Vx to (old Vx << 1) mod 256.
C5_Shifts ==
    LET x == FieldX(op_code)
    IN (/\ Executed
        /\ Family(op_code) = 8
        /\ x # 15
        /\ pre.gpio[x] \in Byte) =>
           /\ FieldN(op_code) = 6 =>
                 /\ gpio[15] = pre.gpio[x] % 2
                 /\ gpio[x] = pre.gpio[x] \div 2
           /\ FieldN(op_code) = 14 =>
                 /\ gpio[15] = (pre.gpio[x] \div 128) % 2
                 /\ gpio[x] = (pre.gpio[x] * 2) % 256

\* 0x81 has been shifted left: Vx = 0x02, flag = 1
C5_Witness ==
    /\ Executed
    /\ op_code = \h801E
    /\ pre.gpio[0] = 129
    /\ gpio[0] = 2 /\ gpio[15] = 1

\* the loop stands between two iterations (or has just left the last one)
BetweenCycles == phase \in {"read_keyboard", "stop", "halted"}

\* C6: the ROM 6005, 6103, 8015 run from the initial state: after exactly 3
\* cycles V0 = 0x02, register 0xF = 1 and pc = 0x206.
C6_Scenario ==
    (/\ cycles = 3
     /\ BetweenCycles
     /\ memory = LoadedMemory(RomScenario)) =>
        /\ gpio[0] = 2
        /\ gpio[15] = 1
        /\ program_counter = \h206

\* three cycles of that ROM are complete
C6_Witness ==
    /\ cycles = 3
    /\ phase = "read_keyboard"
    /\ memory = LoadedMemory(RomScenario)
    /\ op_code = \h8015
    /\ gpio[0] = 2 /\ gpio[1] = 3 /\ gpio[15] = 1

\* the last element of a non-empty sequence
Last(q) == q[Len(q)]
\* a sequence without its last element
Front(q) == SubSeq(q, 1, Len(q) - 1)

\* C7: a CALL fetched at address a sets pc to nnn; the RET that matches it
\* (the pending CALLs form a stack: call_sites) sets pc to a + 2; the return
\* addresses are taken last-in-first-out and the RET leaves the depth the
\* CALL found.
C7_CallReturn ==
    /\ Len(stack) = Len(call_sites)
    /\ \A i \in 1..Len(stack) : stack[i] = call_sites[i] + 2
    /\ (Executed /\ Family(op_code) = 2) =>
          /\ program_counter = FieldNNN(op_code)
          /\ call_sites = Append(pre.call_sites, pre.program_counter)
          /\ Len(stack) = Len(pre.stack) + 1
    /\ (Executed /\ Family(op_code) = 0 /\ FieldKK(op_code) = \hEE) =>
          /\ pre.call_sites # << >>
          /\ program_counter = Last(pre.call_sites) + 2
          /\ stack = Front(pre.stack)

\* the inner RET of two nested CALLs has returned behind the inner CALL (0x206)
C7_Witness ==
    /\ Executed
    /\ op_code = \h00EE
    /\ pre.call_sites = << \h200, \h206 >>
    /\ program_counter = \h208
    /\ stack = << \h202 >>

\* C8: RET (00EE) on the empty call stack fails: the run ends with the error
\* Python raises for a pop from an empty deque, nothing is popped into pc (it
\* keeps the value the fetch gave it) and the stack stays empty.
C8_ReturnOnEmptyStackFails ==
    (/\ handler = "_00EE"
     /\ phase \in {"draw", "crashed"}
     /\ pre.stack = << >>) =>
        /\ phase = "crashed"
        /\ error = "IndexError"
        /\ stack = << >>
        /\ program_counter = pre.program_counter + 2

\* RET was fetched at 0x200 with nothing on the stack
C8_Witness ==
    /\ phase = "crashed"
    /\ handler = "_00EE"
    /\ op_code = \h00EE
    /\ pre.stack = << >>
    /\ pre.program_counter = \h200
    /\ error = "IndexError"

\* C9: the call stack never holds more than 16 return addresses; a CALL that
\* finds 16 entries fails instead of pushing a 17th.
C9_StackAtMost16 ==
    /\ Len(stack) <= 16
    /\ (handler = "_2nnn" /\ phase \in {"draw", "crashed"} /\ Len(pre.stack) = 16) =>
          phase = "crashed"

\* bit c (0 = most significant) of a sprite byte
SpriteBit(byte, c) == (byte \div (2 ^ (7 - c))) % 2
\* the cell the instruction set assigns to bit c of sprite row r drawn at (Vx, Vy)
TargetCell(Vx, Vy, r, c) == ((Vx + c) % 64) + ((Vy + r) % 32) * 64
\* the sprite rows a DRW of height n reads before a read of memory[I + r] fails
RowsRead(n) == { r \in 0..(n - 1) : \A q \in 0..r : MemOk(I + q) }
\* the cells the set bits of those rows are assigned to
Toggled(w) ==
    { TargetCell(gpio[FieldX(w)], gpio[FieldY(w)], r, c) :
        <<r, c>> \in { rc \in RowsRead(FieldN(w)) \X (0..7) :
                         SpriteBit(MemAt(memory, I + rc[1]), rc[2]) = 1 } }

\* C10: DRW Vx,Vy,n XORs bit c of sprite row r (byte memory[I + r]) into exactly
\* the cell ((Vx + c) mod 64) + ((Vy + r) mod 32) * 64 and changes no other
\* cell.
C10_DrawCells ==
    [][ (/\ phase = "process_op_code"
         /\ handler' # "process_op_code"
         /\ Family(op_code') = 13) =>
            \A cells \in { Toggled(op_code') } :
               \A k \in 0..2047 :
                  display'[k] = IF k \in cells THEN 1 - display[k] ELSE display[k] ]_vars

\* an 8-wide sprite (rows FF, 81) has been drawn at (60,0): row 0 lights
\* columns 60..63 and 0..3, row 1 columns 60 and 3
C10_Witness ==
    /\ Executed
    /\ Family(op_code) = 13
    /\ pre.gpio[FieldX(op_code)] = 60 /\ pre.gpio[FieldY(op_code)] = 0
    /\ \A c \in {60, 61, 62, 63, 0, 1, 2, 3} : display[c] = 1
    /\ display[4] = 0 /\ display[59] = 0
    /\ display[64 + 60] = 1 /\ display[64 + 3] = 1
    /\ display[64 + 61] = 0 /\ display[64] = 0

\* an instruction of family f was fetched and its handler returned in this step
Returns(f) ==
    /\ phase = "process_op_code"
    /\ phase' = "draw"
    /\ Family(op_code') = f

\* C11: after DRW Vx,Vy,n register 0xF is 1 if and only if some display cell
\* that was 1 before the instruction is 0 after it, and 0 otherwise (n = 0 and
\* an all-zero sprite included), whatever register 0xF held before.
C11_CollisionFlag ==
    [][ Returns(13) =>
           gpio'[15] = IF \E k \in 0..(DISPLAY_SIZE - 1) : display[k] = 1 /\ display'[k] = 0
                       THEN 1 ELSE 0 ]_vars

\* a DRW that found the flag at 0 erased a lit cell and left the flag at 1
C11_Witness ==
    /\ Executed
    /\ Family(op_code) = 13
    /\ FieldN(op_code) > 0
    /\ pre.gpio[15] = 0
    /\ gpio[15] = 1
    /\ \E k \in 0..(DISPLAY_SIZE - 1) : display[k] = 0

\* the conditional skips of the instruction set
IsSkip(w) ==
    \/ Family(w) \in {3, 4}
    \/ Family(w) \in {5, 9} /\ FieldN(w) = 0
    \/ Family(w) = 14 /\ FieldKK(w) \in {\h9E, \hA1}

\* the condition of skip w in the state the instruction finds
SkipCondition(w) ==
    LET Vx == gpio[FieldX(w)]
        Vy == gpio[FieldY(w)]
    IN CASE Family(w) = 3 -> Vx = FieldKK(w)
         [] Family(w) = 4 -> Vx # FieldKK(w)
         [] Family(w) = 5 -> Vx = Vy
         [] Family(w) = 9 -> Vx # Vy
         [] Family(w) = 14 /\ FieldKK(w) = \h9E -> Vx \in pressed_key
         [] Family(w) = 14 /\ FieldKK(w) = \hA1 -> Vx \notin pressed_key

\* C12: a conditional skip (3xkk, 4xkk, 5xy0, 9xy0, Ex9E, ExA1) advances pc by
\* exactly 4 in its cycle when its condition holds and by exactly 2 when it
\* does not, and changes nothing else; the keys are those of this cycle's poll.
C12_Skips ==
    [][ (/\ phase = "process_op_code"
         /\ phase' = "draw"
         /\ IsSkip(op_code')) =>
            /\ program_counter' = program_counter + (IF SkipCondition(op_code') THEN 4 ELSE 2)
            /\ UNCHANGED <<memory, gpio, I, stack, delay_timer, sound_timer, display,
                           drawing, pressed_key, working>> ]_vars

\* SKP V0 with V0 = 5 and key 5 down in this cycle's poll went 4 forward
C12_Witness ==
    /\ Executed
    /\ frontend = "pygame"
    /\ op_code = \hE09E
    /\ gpio[0] = 5
    /\ 5 \in pressed_key
    /\ program_counter = pre.program_counter + 4

\* an Fx-instruction with low byte b was fetched and its handler returned in this step
ReturnsF(b) == Returns(15) /\ FieldKK(op_code') = b

\* C13: LD [I],Vx, then any overwriting of V0..Vx, then LD Vx,[I] for the same
\* x, with no other instruction assigning to memory or I in between, leaves
\* V0..Vx with the values they had before the LD [I],Vx.
C13_RoundTrip ==
    [][ (/\ ReturnsF(\h65)
         /\ transferred.x = FieldX(op_code')) =>
            \A i \in 0..FieldX(op_code') : gpio'[i] = transferred.gpio[i] ]_vars

\* C14: LD [I],Vx leaves memory[I0 + i] = Vi and LD Vx,[I] leaves
\* Vi = memory[I0 + i] for every i in 0..x, x itself included, I0 being I
\* before the instruction.
C14_TransfersV0ToVx ==
    [][ /\ ReturnsF(\h55) =>
              \A i \in 0..FieldX(op_code') :
                 MemOk(I + i) => MemAt(memory', I + i) = gpio[i]
        /\ ReturnsF(\h65) =>
              \A i \in 0..FieldX(op_code') :
                 MemOk(I + i) => gpio'[i] = MemAt(memory, I + i) ]_vars

\* C15: LD [I],Vx leaves I as it found it.
C15_StoreKeepsI ==
    [][ ReturnsF(\h55) => I' = I ]_vars

\* an instruction was fetched and dispatched in this step, whatever came of it
Dispatched ==
    /\ phase = "process_op_code"
    /\ phase' \in {"draw", "crashed"}
    /\ handler' # "process_op_code"

\* C16: a word 5xyN with N # 0 (0x5001) is an unknown opcode: the loop goes
\* on, pc advances by exactly 2 and registers, I, stack, timers, memory and
\* display stay as they were, whatever Vx and Vy hold.
C16_5xyNIsUnknown ==
    [][ (/\ Dispatched
         /\ Family(op_code') = 5
         /\ FieldN(op_code') # 0) =>
            /\ phase' = "draw"
            /\ program_counter' = program_counter + 2
            /\ UNCHANGED <<memory, gpio, I, stack, delay_timer, sound_timer, display>> ]_vars

\* the handlers of OPS_MAPPING that are instructions, and the fallback
FinalHandlers ==
    {"_0nnn", "_00E0", "_00EE", "_1nnn", "_2nnn", "_3xkk", "_4xkk", "_5xy0", "_6xkk",
     "_7xkk", "_8xy0", "_8xy1", "_8xy2", "_8xy3", "_8xy4", "_8xy5", "_8xy6", "_8xy7",
     "_8xyE", "_9xy0", "_Annn", "_Bnnn", "_Cxkk", "_Dxyn", "_Ex9E", "_ExA1", "_Fx07",
     "_Fx0A", "_Fx15", "_Fx18", "_Fx1E", "_Fx29", "_Fx33", "_Fx55", "_Fx65",
     "unknown_op_code"}

\* C17: the dispatch of every fetched word ends, after finitely many steps,
\* in one final handler: an instruction or the unknown-opcode fallback; the
\* words whose sub-key is the family key itself (E000, E100, F000) included.
C17_DispatchTotal ==
    [][ Dispatched => handler' \in FinalHandlers ]_vars

\* the addresses the handler of word w indexes self.memory with, at I
Operands(w) ==
    CASE Family(w) = 13 -> { I + r : r \in 0..(FieldN(w) - 1) }
      [] Family(w) = 15 /\ FieldKK(w) = \h33 -> { I, I + 1, I + 2 }
      [] Family(w) = 15 /\ FieldKK(w) \in {\h55, \h65} -> { I + i : i \in 0..(FieldX(w) - 1) }
      [] OTHER -> {}

\* the addresses one process_op_code indexes self.memory with, were none refused
Accessed ==
    {program_counter, program_counter + 1}
       \cup (IF FetchOk THEN Operands(Fetched) ELSE {})

\* C18: the fetch (pc, pc + 1) and DRW, LD B, LD [I],Vx, LD Vx,[I] access
\* memory at addresses in [0,4095] only: an access outside that range, above
\* or below, ends the run with a fault and no memory cell is written.
C18_MemoryFaults ==
    [][ (/\ phase = "process_op_code"
         /\ \E a \in Accessed : a \notin 0..(MEMORY_SIZE - 1)) =>
            /\ phase' = "crashed"
            /\ error' # "none"
            /\ memory' = memory ]_vars

\* C19: the font table and the reserved region are not written after
\* construction: memory[0x000..0x04F] holds the 80 font bytes and the rest
\* below 0x200 holds the zeros of construction, in every reachable state.
C19_ReservedRegion ==
    \A a \in 0..(MEMORY_START - 1) :
       memory[a] = IF a < Len(FONTS) THEN FONTS[a + 1] ELSE 0

\* C20: both timers are in [0,255] in every reachable state, and the tick of
\* a cycle lowers a timer above 0 by exactly 1 and leaves a timer at 0 at 0.
C20_Timers ==
    /\ [](delay_timer \in Byte /\ sound_timer \in Byte)
    /\ [][ phase = "update_timers" =>
              /\ delay_timer > 0 => delay_timer' = delay_timer - 1
              /\ delay_timer = 0 => delay_timer' = 0
              /\ sound_timer > 0 => sound_timer' = sound_timer - 1
              /\ sound_timer = 0 => sound_timer' = 0 ]_vars

Cycle == << "read_keyboard", "process_op_code", "draw", "update_timers" >>

IsPrefix(p, q) == Len(p) <= Len(q) /\ \A i \in 1..Len(p) : p[i] = q[i]

ExitRequested == phase = "process_op_code" /\ ~working

\* run() has begun and self.working is False
Leaving == ~working /\ phase \notin {"constructed", "init"}

\* what C23 says of a run once the exit is requested, the arrival aside
ExitIsFinal ==
    /\ [][ Leaving => phase' # "read_keyboard" ]_vars
    /\ [](phase = "halted" => (Leaving /\ calls = << "stop" >>))
    /\ [][ phase = "halted" => UNCHANGED Machine ]_vars

\* C23 as stated: once a poll has set working to False the loop reaches
\* Halted: no further cycle is started, stop() is called once, run() returns
\* and no VM state changes afterwards.
C23_ExitHalts ==
    /\ ExitRequested ~> (phase = "halted")
    /\ ExitIsFinal

\* C23: once a poll has set working to False, run() finishes the cycle it is
\* in and then reaches Halted, unless the instruction of that cycle raises,
\* which ends the run at once; no further cycle is started, stop() is called
\* once, and no VM state changes afterwards.
C23_ExitHaltsUnlessRaise ==
    /\ ExitRequested ~> (phase = "halted" \/ phase = "crashed")
    /\ [][ (ExitRequested /\ phase' = "draw") => cycles' = cycles ]_vars
    /\ ExitIsFinal

\* run() returned after the escape key was seen in the poll of the third cycle
C23_Witness ==
    /\ phase = "halted"
    /\ ~working
    /\ cycles = 3
    /\ calls = << "stop" >>

\* C24: at the end of the render step of every cycle, in both frontends, the
\* dirty flag self.drawing is False.
C24_RenderClearsDirty == phase = "update_timers" => ~drawing

\* the instruction of the current cycle is CLS or DRW, which set self.drawing
MarkedDirty == handler \in {"_00E0", "_Dxyn"} /\ error = "none"

\* C25: in both frontends, a cycle whose instruction is CLS or DRW hands the
\* display to the renderer in its render step, also when no cell is lit.
C25_DirtyIsPresented == (phase = "update_timers" /\ MarkedDirty) => presented

\* the cycle in progress, or the one just finished, executed LD Vx,K with no
\* key in the set its poll left
KeyWait ==
    /\ handler = "_Fx0A"
    /\ error = "none"
    /\ pressed_key = {}
    /\ phase \in {"draw", "update_timers", "read_keyboard", "stop", "halted"}

\* C26: a cycle that executes LD Vx,K while the polled set of pressed keys is
\* empty ends with pc at the address of that instruction and every register
\* as before; the cycle has polled, rendered and ticked like any other, and
\* with still no key down the next cycle executes the same instruction again.
C26_KeyWait ==
    /\ [][ (ReturnsF(\h0A) /\ pressed_key = {}) =>
              (program_counter' = program_counter /\ gpio' = gpio) ]_vars
    /\ [](KeyWait => (/\ program_counter = pre.program_counter
                      /\ gpio = pre.gpio
                      /\ (phase \in {"read_keyboard", "stop", "halted"} =>
                             calls \in {Cycle, << "stop" >>})))
    /\ [][ (/\ KeyWait
            /\ phase = "read_keyboard"
            /\ phase' = "process_op_code"
            /\ pressed_key' = {}) =>
              (/\ Fetched' = op_code
               /\ _process_op_code(Fetched') = "_Fx0A") ]_vars

\* the third cycle in a row that waited at 0x200 is complete
C26_Witness ==
    /\ KeyWait
    /\ phase = "read_keyboard"
    /\ cycles = 3
    /\ calls = Cycle
    /\ program_counter = MEMORY_START
    /\ op_code = \hF10A

\* C27: LD Vx,K executed with a non-empty polled set of pressed keys leaves in
\* Vx a member of that set, a key code in 0x0..0xF, leaves pc 2 past the
\* instruction and changes no other register.
C27_KeyStored ==
    [][ (ReturnsF(\h0A) /\ pressed_key # {}) =>
          (/\ gpio'[FieldX(op_code')] \in pressed_key
           /\ gpio'[FieldX(op_code')] \in 0..15
           /\ program_counter' = program_counter + 2
           /\ \A r \in 0..15 : r # FieldX(op_code') => gpio'[r] = gpio[r]
           /\ I' = I) ]_vars

\* LD V1,K has just stored key 0xA, one of two keys down, with V0 = 5 kept
C27_Witness ==
    /\ phase = "draw"
    /\ handler = "_Fx0A"
    /\ op_code = \hF10A
    /\ pressed_key = {5, 10}
    /\ gpio[1] = 10
    /\ gpio[0] = 5
    /\ program_counter = pre.program_counter + 2

\* C28: for I in 0..0xFFF and Vx a byte, ADD I,Vx leaves I = I_old + Vx and
\* register 0xF = 1 if I_old + Vx exceeds 0xFFF, 0 otherwise.
C28_AddIFlag ==
    [][ (/\ ReturnsF(\h1E)
         /\ I \in 0..\hFFF
         /\ gpio[FieldX(op_code')] \in Byte) =>
           (/\ I' = I + gpio[FieldX(op_code')]
            /\ gpio'[15] = IF I + gpio[FieldX(op_code')] > \hFFF THEN 1 ELSE 0) ]_vars

\* C29: LD B,Vx with Vx a byte leaves in memory[I], memory[I+1], memory[I+2]
\* the hundreds, tens and ones digits of Vx, each in 0..9 and together
\* 100*h + 10*t + o = Vx; I, the registers and every other memory cell are
\* as before.
C29_Bcd ==
    /\ \A v \in Byte :
          /\ {hundreds(v), tens(v), ones(v)} \subseteq 0..9
          /\ 100 * hundreds(v) + 10 * tens(v) + ones(v) = v
    /\ [][ (ReturnsF(\h33) /\ gpio[FieldX(op_code')] \in Byte) =>
          LET v == gpio[FieldX(op_code')]
              h == MemAt(memory', I)
              t == MemAt(memory', I + 1)
              o == MemAt(memory', I + 2)
          IN /\ {h, t, o} \subseteq 0..9
             /\ 100 * h + 10 * t + o = v
             /\ I' = I
             /\ gpio' = gpio
             /\ \A a \in 0..(MEMORY_SIZE - 1) :
                   a \notin { ListIndex(MEMORY_SIZE, I + k) : k \in 0..2 } => memory'[a] = memory[a] ]_vars

\* LD B,V0 has just stored 2, 5, 5 at 0x300 for V0 = 255
C29_Witness ==
    /\ phase = "draw"
    /\ handler = "_Fx33"
    /\ gpio[0] = 255
    /\ I = \h300
    /\ memory[\h300] = 2
    /\ memory[\h301] = 5
    /\ memory[\h302] = 5

\* the five bytes of the glyph of hex digit d in the class constant FONTS
Glyph(d) == SubSeq(FONTS, FONT_SIZE_IN_BYTES * d + 1, FONT_SIZE_IN_BYTES * d + FONT_SIZE_IN_BYTES)

\* C30: right after construction pc = 0x200, the 16 registers, I and both
\* timers are 0, the stack and the set of pressed keys are empty, all 2048
\* display cells are 0, memory[0..79] holds the 16 five-byte glyphs in the
\* order 0..F with glyph d at 5*d, and memory[80..4095] is 0.
C30_Constructed ==
    phase = "constructed" =>
        /\ program_counter = \h200
        /\ DOMAIN gpio = 0..15
        /\ \A r \in 0..15 : gpio[r] = 0
        /\ I = 0
        /\ stack = << >>
        /\ delay_timer = 0
        /\ sound_timer = 0
        /\ DOMAIN display = 0..2047
        /\ \A c \in 0..2047 : display[c] = 0
        /\ pressed_key = {}
        /\ Len(FONTS) = 80
        /\ \A d \in 0..15 : \A k \in 0..4 : memory[5 * d + k] = Glyph(d)[k + 1]
        /\ memory[0] = \hF0 /\ memory[5] = \h20 /\ memory[75] = \hF0 /\ memory[79] = \h80
        /\ DOMAIN memory = 0..4095
        /\ \A a \in 80..4095 : memory[a] = 0

\* the console interpreter has been constructed and no ROM is loaded yet
C30_Witness ==
    /\ phase = "constructed"
    /\ frontend = "console"
    /\ memory[79] = \h80
    /\ memory[MEMORY_START] = 0
    /\ ~working

\* C31: in every reachable state the address register I is an unsigned 16-bit
\* value, 0 <= I <= 0xFFFF.
C31_IUnsigned == I \in 0..\hFFFF

\* C32: a cycle whose word is dispatched to unknown_op_code changes nothing
\* but pc, which advances by exactly 2: registers, I, stack, memory, display,
\* dirty flag, pressed keys and self.working are as the poll left them; the
\* loop goes on as after any instruction and the next fetch is at pc + 2.
C32_UnknownIsNoOp ==
    /\ [][ (Dispatched /\ handler' = "unknown_op_code") =>
              (/\ phase' = "draw"
               /\ error' = "none"
               /\ program_counter' = program_counter + 2
               /\ UNCHANGED <<gpio, I, stack, memory, display, drawing, pressed_key,
                              working, delay_timer, sound_timer>>) ]_vars
    /\ [](handler = "unknown_op_code" => program_counter = pre.program_counter + 2)
    /\ [][ (handler = "unknown_op_code" /\ phase = "update_timers" /\ working) =>
              phase' = "read_keyboard" ]_vars

\* 0x8018 at 0x200 went to the fallback and the second cycle is about to
\* fetch at 0x202
C32_Witness ==
    /\ handler = "unknown_op_code"
    /\ op_code = \h8018
    /\ phase = "process_op_code"
    /\ cycles = 1
    /\ working
    /\ program_counter = \h202

\* C33: a word 0x0nnn other than 00E0 and 00EE, 0x0000 and 0x0N00 included,
\* changes nothing but pc, which advances by 2; it does not jump to nnn.
C33_SysIgnored ==
    [][ (/\ Dispatched
         /\ Family(op_code') = 0
         /\ op_code' \notin {\h00E0, \h00EE}) =>
           (/\ phase' = "draw"
            /\ program_counter' = program_counter + 2
            /\ UNCHANGED <<gpio, I, stack, memory, display, drawing, delay_timer,
                           sound_timer>>) ]_vars

\* C34: only CLS and DRW change the display: no other instruction, no poll,
\* render or tick changes any of the 2048 cells; and every cell is 0 or 1 in
\* every reachable state.
C34_DisplayFrame ==
    /\ [](/\ DOMAIN display = 0..2047
          /\ \A c \in 0..2047 : display[c] \in {0, 1})
    /\ [][ display' # display =>
              (/\ phase = "process_op_code"
               /\ handler' \in {"_00E0", "_Dxyn"}) ]_vars

\* RND V0 has run over a display with lit cells and the cycle is complete
C34_Witness ==
    /\ handler = "_Cxkk"
    /\ phase = "read_keyboard"
    /\ \E c \in 0..2047 : display[c] = 1

\* the ROM buttons draw_game_select_buttons puts on the current page
RomsOnPage ==
    Cardinality({ i \in 0..(Len(roms) - 1) :
                    /\ i >= current_page * page_size
                    /\ i < (current_page + 1) * page_size })

\* C35: for every number of ROMs, fewer than 9 and none included, and every
\* page, current_page_size raises nothing and is the number of ROM buttons on
\* the page plus one for the next-page button.
C35_PageSize ==
    scene # "none" =>
        /\ menu_error # "ZeroDivisionError"
        /\ ~ZeroDivision => current_page_size = RomsOnPage + 1

\* C40: with 9 ROMs or more, whatever UP, DOWN and SPACE/RETURN events come,
\* selected_rom_index stays in 0..current_page_size - 1 and current_page in
\* 0..len(roms) // page_size and nothing is raised; a switch to the game
\* scene makes respond(SELECTED_ROM) return roms[selected_rom_index +
\* current_page * page_size], an index below len(roms); and the page changes
\* only from the next-page button, from the last page back to page 0.
C40_MenuInRange ==
    /\ []((scene # "none" /\ Len(roms) >= page_size) =>
            (/\ menu_error = "none"
             /\ current_page \in 0..LastPage
             /\ selected_rom_index \in 0..(current_page_size - 1)))
    /\ [][ (/\ Len(roms) >= page_size
            /\ scene' = "game"
            /\ current_page' = current_page
            /\ selected_rom_index' = selected_rom_index) =>
              LET idx == selected_rom_index + current_page * page_size
              IN /\ selected_rom_index # current_page_size - 1
                 /\ idx \in 0..(Len(roms) - 1)
                 /\ selected_rom' = roms[idx + 1] ]_vars
    /\ [][ (Len(roms) >= page_size /\ current_page' # current_page) =>
              (/\ selected_rom_index = current_page_size - 1
               /\ selected_rom_index' = 0
               /\ current_page' = IF current_page = LastPage THEN 0 ELSE current_page + 1) ]_vars

\* with 20 ROMs the second ROM of the third and last page has been started
C40_Witness ==
    /\ Len(roms) = 20
    /\ current_page = 2
    /\ selected_rom_index = 1
    /\ scene = "game"
    /\ selected_rom = roms[20]

\* the DRW about to return repeats the DRW executed just before it: the same
\* word, x and y not 0xF, and I, Vx, Vy and the memory as that one found them
SecondDraw ==
    /\ Returns(13)
    /\ handler = "_Dxyn"
    /\ op_code' = op_code
    /\ FieldX(op_code) # 15
    /\ FieldY(op_code) # 15
    /\ I = pre.I
    /\ gpio[FieldX(op_code)] = pre.gpio[FieldX(op_code)]
    /\ gpio[FieldY(op_code)] = pre.gpio[FieldY(op_code)]

\* C36 as stated: the second of two identical DRW in a row restores the
\* display the first one found and sets register 0xF to 1 whenever the sprite
\* has a set bit; one DRW toggles no cell twice.
C36_DrawTwice ==
    /\ [][ SecondDraw =>
              (/\ display' = pre.display
               /\ Toggled(op_code') # {} => gpio'[15] = 1) ]_vars
    /\ [][ Returns(13) =>
              \A k \in 0..2047 :
                 display'[k] # display[k] <=> k \in Toggled(op_code') ]_vars

\* C36: the second of two identical DRW in a row restores the display the
\* first one found and sets register 0xF to 1 if and only if some cell under
\* a set sprite bit was 0 before the first DRW; one DRW toggles no cell twice.
C36_DrawTwiceRestores ==
    /\ [][ SecondDraw =>
              (/\ display' = pre.display
               /\ gpio'[15] = IF \E k \in Toggled(op_code') : pre.display[k] = 0
                               THEN 1 ELSE 0) ]_vars
    /\ [][ Returns(13) =>
              \A k \in 0..2047 :
                 display'[k] # display[k] <=> k \in Toggled(op_code') ]_vars

\* the third D012 in a row has redrawn the sprite the second erased, with no
\* collision
C36_Witness ==
    /\ phase = "draw"
    /\ handler = "_Dxyn"
    /\ op_code = \hD012
    /\ pre.program_counter = \h20A
    /\ gpio[15] = 0
    /\ display[60] = 1
    /\ display # pre.display

\* the steps of the cycle whose poll left self.working False follow one
\* another as in any cycle
ExitCycleInOrder ==
    /\ [][ ExitRequested => phase' \in {"draw", "crashed"} ]_vars
    /\ [][ (Leaving /\ phase = "draw") => phase' = "update_timers" ]_vars
    /\ [][ (Leaving /\ phase = "update_timers") =>
              (phase' = "stop" /\ cycles' = cycles + 1) ]_vars

\* C37 as stated: when run() leaves its loop after an exit request, the cycle
\* of that request has executed one instruction, rendered and ticked; the
\* request aborts no cycle part-way.
C37_ExitCycleComplete ==
    /\ []((Leaving /\ phase \in {"stop", "crashed"}) => calls = Cycle)
    /\ ExitCycleInOrder

\* C37: when run() leaves its loop by its test of self.working after an exit
\* request, the cycle of that request has executed one instruction, rendered
\* and ticked; when the instruction of that cycle raises, run() is left
\* with the poll and the instruction done and no render or tick.
C37_ExitCycleCompleteUnlessRaise ==
    /\ []((Leaving /\ phase = "stop") => (calls = Cycle /\ error = "none"))
    /\ []((Leaving /\ phase = "crashed") =>
            (calls = << "read_keyboard", "process_op_code" >> /\ error # "none"))
    /\ ExitCycleInOrder

\* the escape key was seen by the poll of the third cycle, whose instruction
\* has run, and the loop is left after render and tick
C37_Witness ==
    /\ phase = "stop"
    /\ ~working
    /\ cycles = 3
    /\ calls = Cycle
    /\ handler # "none"

\* how far a timer is from 0
Dist(t) == IF t < 0 THEN -t ELSE t

\* a tick that takes a timer from t to u keeps it on its way to 0 within 255
\* ticks: at most 255 away, strictly nearer after the tick, and at 0 to stay
RunsDown(t, u) ==
    /\ Dist(t) <= 255
    /\ t # 0 => Dist(u) < Dist(t)
    /\ t = 0 => u = 0

\* C38: while no LD DT,Vx is executed and the loop runs, the delay timer is 0
\* after at most 255 further cycles and stays 0; likewise the sound timer
\* while no LD ST,Vx is executed.  Timers change only by those loads and by
\* the tick, so this is: every tick finds each timer at most 255 from 0,
\* brings a timer that is not 0 nearer to 0 and leaves a timer at 0 at 0.
C38_TimersRunDown ==
    [][ (phase = "update_timers" /\ phase' # "update_timers") =>
          (/\ RunsDown(delay_timer, delay_timer')
           /\ RunsDown(sound_timer, sound_timer')) ]_vars

\* C39: under the console frontend the set of pressed keys is empty in every
\* reachable state, so SKP never skips, SKNP always skips, a program that
\* reaches LD Vx,K executes that instruction again in every later cycle, and
\* self.working is never set to False once run() has begun: the loop never
\* reaches Halted.
C39_ConsoleHasNoKeys ==
    /\ [](frontend = "console" =>
            (/\ pressed_key = {}
             /\ phase \notin {"stop", "halted"}
             /\ phase \notin {"constructed", "init"} => working))
    /\ [][ (frontend = "console" /\ Returns(14) /\ FieldKK(op_code') = \h9E) =>
              program_counter' = program_counter + 2 ]_vars
    /\ [][ (frontend = "console" /\ Returns(14) /\ FieldKK(op_code') = \hA1) =>
              program_counter' = program_counter + 4 ]_vars
    /\ [][ (frontend = "console" /\ ReturnsF(\h0A)) =>
              (program_counter' = program_counter /\ gpio' = gpio) ]_vars
    /\ [][ (frontend = "console" /\ handler = "_Fx0A" /\ Dispatched) =>
              (handler' = "_Fx0A" /\ op_code' = op_code /\ phase' = "draw") ]_vars

\* on the console SKNP V0 at 0x204 has skipped over LD V1,K to 0x208 with the
\* key of V0 never down
C39_Witness ==
    /\ frontend = "console"
    /\ phase = "draw"
    /\ handler = "_ExA1"
    /\ pre.program_counter = \h204
    /\ program_counter = \h208
    /\ working

====
